---- MODULE Spec2Model ----
(***************************************************************************)
(* A model of gitit: the update-repos batch command (src/update.rs) that   *)
(* keeps bare mirrors in sync with their remotes, and the request handlers *)
(* (src/routes/repo.rs, src/utils.rs, src/errors.rs) that render a         *)
(* mirror's commits, trees and diffs.                                      *)
(***************************************************************************)
EXTENDS Integers, Sequences, FiniteSets, TLC

\* ------------------------------------------------------------------------
\* Bounds of the model
\* ------------------------------------------------------------------------

\* How many times one operator shell may invoke the update-repos command.
MaxRuns == 2
\* How many times the remotes' refs change during a behaviour.
MaxPushes == 2
\* How many commits the longest history of a mirror has.
MaxHistory == 502

\* ------------------------------------------------------------------------
\* The synchronizer's world: configuration, remotes, mirrors
\* ------------------------------------------------------------------------

\* Invocations of the update-repos command (operating-system processes).
Procs == {1, 2}

\* config.repos: slug -> RepoConfig (only `head` matters to update.rs
\* beyond the url, which names the remote of the same slug).
Repos == {"r1", "r2", "r3"}

RepoConfig == [r \in Repos |-> IF r = "r2" THEN [head |-> "dev"] ELSE [head |-> "main"]]

\* Object ids are 40 hexadecimal characters. The commits of the repository that
\* the remotes publish and the mirrors hold: a root commit, a child of it, a side
\* branch off the root, and the merge of the child and the side branch.
IdRoot == "1111111111111111111111111111111111111111"
IdChild == "2222222222222222222222222222222222222222"
IdSide == "3333333333333333333333333333333333333333"
IdMerge == "4444444444444444444444444444444444444444"

\* The object ids a branch of a remote may stand at.
Oids == {IdChild, IdMerge}

\* The refs a remote may hold, in the order the reference iterator yields them.
RefOrder == <<"refs/heads/dev", "refs/heads/main">>

RefNames == {RefOrder[i] : i \in 1..Len(RefOrder)}

\* The value of a ref that does not exist.
NoRef == "absent"

NoRefs == [n \in RefNames |-> NoRef]

\* The info/refs file of a mirror that was never written.
NoFile == [exists |-> FALSE, lines |-> <<>>]

\* A hole left in a file by a write past its end.
Hole == "\\0"

\* HEAD of a freshly initialised repository, before anything points it elsewhere.
InitialHead == "refs/heads/master"

Perms(S) == {f \in [1..Cardinality(S) -> S] : \A i, j \in 1..Cardinality(S) : i # j => f[i] # f[j]}

Max(a, b) == IF a > b THEN a ELSE b

VARIABLES
  config,      \* the slugs of config.repos (gitit.toml), fixed during a behaviour
  active,      \* the update-repos invocations that exist in this deployment
  pc,          \* pc[p]: where invocation p stands in update_repos
  queue,       \* queue[p]: the repositories the for loop has still to visit
  cur,         \* cur[p]: the repository of the current iteration
  runs,        \* runs[p]: how many times p has been started
  snap,        \* snap[p]: the refs the remote advertised to p's download
  pending,     \* pending[p]: the tips update_tips has still to write
  output,      \* output[p]: the String update_refs_info built
  wpos,        \* wpos[p]: how many lines of output fs::write has written
  exists,      \* exists[m]: repos/<m>.git exists
  refs,        \* refs[m]: ref name -> object id of the mirror
  HEAD,        \* HEAD[m]: the mirror's symbolic HEAD
  refsInfo,    \* refsInfo[m]: the file info/refs of the mirror
  remoteRefs,  \* remoteRefs[m]: the refs of the remote of m
  remoteHead,  \* remoteHead[m]: the branch the remote advertises as HEAD
  pushes,      \* how many times a remote has changed
  fetchOk,     \* fetchOk[p]: the clone or fetch of this iteration returned Ok
  lastGood,    \* lastGood[m]: the mirror as the last successful sync left it
  syncPre,     \* syncPre[m]: info/refs as it was when the sync in flight began
  obs          \* what the concurrent reader last observed

syncVars == <<config, active, pc, queue, cur, runs, snap, pending, output, wpos, exists, refs,
              HEAD, refsInfo, remoteRefs, remoteHead, pushes, fetchOk, lastGood,
              syncPre, obs>>



VARIABLES
  req,       \* the request being served
  result,    \* what its handler returned
  resp,      \* the response sent for it
  errorLog,  \* whether serving it wrote an error-level log entry
  rphase,    \* "idle", "received", "walking", "handled" or "responded"
  history,   \* the commits of the mirror: parents, commit times, and HEAD's commit
  walk       \* the Revwalk of the index handler and the commits it has yielded

\* The state of the web process serving one request.
renderVars == <<req, result, resp, errorLog, rphase, history, walk>>

vars == <<syncVars, renderVars>>

NoRepo == "none"

NoObs == [repo |-> NoRepo, seen |-> "quiet"]

NeverSynced == [synced |-> FALSE]

\* ------------------------------------------------------------------------
\* update.rs
\* ------------------------------------------------------------------------

\* The PathBuf repos/<slug>.git is 1:1 with the slug: the mirror is named by it.

\* `{}\t{}\n` of update_refs_info: one line per reference.
FormatLine(target, name) == target \o "\t" \o name \o "\n"

\* rf.target() is Some for a direct reference only.
HasTarget(v) == v \in Oids

\* The String update_refs_info builds from repo.references().
RefsInfoOutput(rs) ==
  LET kept == SelectSeq(RefOrder, LAMBDA n : rs[n] # NoRef /\ HasTarget(rs[n]))
  IN  [i \in 1..Len(kept) |-> FormatLine(rs[kept[i]], kept[i])]

\* A write of one line at line offset i of a file (the writer's own offset).
WriteAt(lines, i, l) ==
  [k \in 1..Max(Len(lines), i) |->
     IF k = i THEN l ELSE IF k <= Len(lines) THEN lines[k] ELSE Hole]

\* The head ref with the default branch written in, whatever the configuration says.
HeadRefDefaultOnly(repo_config) == "refs/heads/main"

\* format!("refs/heads/{}", config.head)
HeadRef(repo_config) == "refs/heads/" \o repo_config.head

\* An error that is swallowed: the for loop goes on to the next repository.
ReturnErrContinue(p) == pc' = [pc EXCEPT ![p] = "iter"]

\* An error that is dropped: the sync goes on to the ref index.
ReturnErrDropped(p) == pc' = [pc EXCEPT ![p] = "refs_read"]

\* `?`: the error leaves update_repos at once; main exits with it.
ReturnErr(p) == pc' = [pc EXCEPT ![p] = "failed"]

Goto(p, l) == pc' = [pc EXCEPT ![p] = l]

SyncInit(started) ==
  /\ pc = [p \in Procs |-> "idle"]
  /\ queue = [p \in Procs |-> <<>>]
  /\ cur = [p \in Procs |-> NoRepo]
  /\ runs = [p \in Procs |-> started]
  /\ snap = [p \in Procs |-> NoRefs]
  /\ pending = [p \in Procs |-> {}]
  /\ output = [p \in Procs |-> <<>>]
  /\ wpos = [p \in Procs |-> 0]
  /\ exists = [m \in Repos |-> FALSE]
  /\ refs = [m \in Repos |-> NoRefs]
  /\ HEAD = [m \in Repos |-> InitialHead]
  /\ refsInfo = [m \in Repos |-> NoFile]
  /\ remoteRefs = [m \in Repos |-> [n \in RefNames |-> IF n = "refs/heads/main" THEN IdChild ELSE NoRef]]
  /\ remoteHead \in [Repos -> {"refs/heads/main"}]
  /\ pushes = 0
  /\ fetchOk = [p \in Procs |-> FALSE]
  /\ lastGood = [m \in Repos |-> NeverSynced]
  /\ syncPre = [m \in Repos |-> NoFile]
  /\ obs = NoObs

NoReq == [handler |-> "none"]

NoResult == [kind |-> "none"]

NoResp == [status |-> 0, location |-> "", body |-> ""]

\* No Revwalk: the index handler is not running.
NoWalk == [frontier |-> {}, queue |-> {}, commits |-> <<>>]

\* The history of the repository that the remotes publish, its commits numbered
\* in the order they were made: the root, its child, the side branch, the merge.
StoreHistory ==
  [n |-> 4,
   parents |-> [c \in 1..4 |-> CASE c = 1 -> {} [] c = 4 -> {2, 3} [] OTHER -> {1}],
   time |-> [c \in 1..4 |-> c],
   head |-> 4]

\* The web process with no request in hand.
RenderIdle ==
  /\ req = NoReq
  /\ result = NoResult
  /\ resp = NoResp
  /\ errorLog = FALSE
  /\ rphase = "idle"
  /\ walk = NoWalk

\* One update-repos invocation at a time over a configuration of one repository
\* (either of the two RepoConfigs), beside the readers and the remotes.
Init ==
  /\ active = {1}
  /\ config \in {{"r1"}, {"r2"}}
  /\ SyncInit(0)
  /\ RenderIdle
  /\ history = StoreHistory

\* main: Cli::UpdateRepos => update::update_repos(config); config.repos is a
\* HashMap, so the for loop visits the repositories in an arbitrary order.
update_repos_start(p) ==
  /\ pc[p] \in {"idle", "done", "failed"}
  /\ runs[p] < MaxRuns
  /\ \E order \in Perms(config) : queue' = [queue EXCEPT ![p] = order]
  /\ runs' = [runs EXCEPT ![p] = @ + 1]
  /\ cur' = [cur EXCEPT ![p] = NoRepo]
  /\ Goto(p, "iter")
  /\ UNCHANGED <<renderVars, config, active, snap, pending, output, wpos, exists, refs, HEAD, refsInfo,
                 remoteRefs, remoteHead, pushes, fetchOk, lastGood, syncPre, obs>>

\* The head of the for loop: the next repository, and the test path.exists().
update_repos_iter(p) ==
  /\ pc[p] = "iter"
  /\ IF queue[p] = <<>>
       THEN /\ Goto(p, "done")
            /\ UNCHANGED <<queue, cur, fetchOk, syncPre, snap, pending>>
       ELSE LET m == Head(queue[p]) IN
            /\ cur' = [cur EXCEPT ![p] = m]
            /\ queue' = [queue EXCEPT ![p] = Tail(@)]
            /\ fetchOk' = [fetchOk EXCEPT ![p] = FALSE]
            /\ syncPre' = [syncPre EXCEPT ![m] = refsInfo[m]]
            /\ snap' = [snap EXCEPT ![p] = NoRefs]
            /\ pending' = [pending EXCEPT ![p] = {}]
            /\ Goto(p, IF ~exists[m] THEN "clone" ELSE "open")
  /\ UNCHANGED <<renderVars, config, active, runs, output, wpos, exists, refs, HEAD, refsInfo,
                 remoteRefs, remoteHead, pushes, lastGood, obs>>


\* clone_repository, first half: RepoBuilder::clone initialises a bare repository
\* at the path with the remote origin (+refs/*:refs/*); it refuses a path that
\* already exists and is not empty.
clone_repository_init(p) ==
  /\ pc[p] = "clone"
  /\ LET m == cur[p] IN
       \/ /\ ~exists[m]
          /\ exists' = [exists EXCEPT ![m] = TRUE]
          /\ refs' = [refs EXCEPT ![m] = NoRefs]
          /\ HEAD' = [HEAD EXCEPT ![m] = InitialHead]
          /\ refsInfo' = [refsInfo EXCEPT ![m] = NoFile]
          /\ Goto(p, "clone_fetch")
       \/ /\ ReturnErr(p)
          /\ UNCHANGED <<exists, refs, HEAD, refsInfo>>
  /\ UNCHANGED <<renderVars, config, active, queue, cur, runs, snap, pending, output, wpos, remoteRefs,
                 remoteHead, pushes, fetchOk, lastGood, syncPre, obs>>

\* clone_repository, second half: the fetch of every ref of the remote and the
\* HEAD the remote advertises; on an error the clone removes what it created.
clone_repository_fetch(p) ==
  /\ pc[p] = "clone_fetch"
  /\ LET m == cur[p] IN
       \/ /\ exists[m]
          /\ snap' = [snap EXCEPT ![p] = remoteRefs[m]]
          /\ refs' = [refs EXCEPT ![m] = remoteRefs[m]]
          /\ HEAD' = [HEAD EXCEPT ![m] = remoteHead[m]]
          /\ Goto(p, "clone_cfg")
          /\ UNCHANGED <<exists, refsInfo>>
       \/ /\ exists' = [exists EXCEPT ![m] = FALSE]
          /\ refs' = [refs EXCEPT ![m] = NoRefs]
          /\ HEAD' = [HEAD EXCEPT ![m] = InitialHead]
          /\ refsInfo' = [refsInfo EXCEPT ![m] = NoFile]
          /\ ReturnErr(p)
          /\ UNCHANGED snap
  /\ UNCHANGED <<renderVars, config, active, queue, cur, runs, pending, output, wpos, remoteRefs,
                 remoteHead, pushes, fetchOk, lastGood, syncPre, obs>>

\* What the clone or fetch does when it returns Ok(repo) to update_repos.
FetchCompleted(p) == fetchOk' = [fetchOk EXCEPT ![p] = TRUE]

\* repo.config()?.set_bool("remote.origin.mirror", true)?; Ok(repo)
clone_repository_config(p) ==
  /\ pc[p] = "clone_cfg"
  /\ \/ /\ exists[cur[p]]
        /\ FetchCompleted(p)
        /\ Goto(p, "refs_read")
     \/ /\ ReturnErr(p)
        /\ UNCHANGED fetchOk
  /\ UNCHANGED <<renderVars, config, active, queue, cur, runs, snap, pending, output, wpos, exists, refs, HEAD,
                 refsInfo, remoteRefs, remoteHead, pushes, lastGood, syncPre, obs>>

\* Repository::open(path)? and find_remote("origin")
fetch_repo_open(p) ==
  /\ pc[p] = "open"
  /\ \/ /\ exists[cur[p]]
        /\ Goto(p, "download")
     \/ ReturnErr(p)
  /\ UNCHANGED <<renderVars, config, active, queue, cur, runs, snap, pending, output, wpos, exists, refs, HEAD,
                 refsInfo, remoteRefs, remoteHead, pushes, fetchOk, lastGood, syncPre, obs>>

\* remote.download(..)?: the pack is stored and the advertised refs are known;
\* no ref of the mirror changes.
fetch_repo_download(p) ==
  /\ pc[p] = "download"
  /\ \/ /\ exists[cur[p]]
        /\ snap' = [snap EXCEPT ![p] = remoteRefs[cur[p]]]
        /\ Goto(p, "disconnect")
     \/ /\ ReturnErr(p)
        /\ UNCHANGED snap
  /\ UNCHANGED <<renderVars, config, active, queue, cur, runs, pending, output, wpos, exists, refs, HEAD,
                 refsInfo, remoteRefs, remoteHead, pushes, fetchOk, lastGood, syncPre, obs>>

\* remote.disconnect()?
fetch_repo_disconnect(p) ==
  /\ pc[p] = "disconnect"
  /\ \/ /\ pending' = [pending EXCEPT ![p] = {n \in RefNames : snap[p][n] # NoRef}]
        /\ Goto(p, "tips")
     \/ /\ ReturnErr(p)
        /\ UNCHANGED pending
  /\ UNCHANGED <<renderVars, config, active, queue, cur, runs, snap, output, wpos, exists, refs, HEAD,
                 refsInfo, remoteRefs, remoteHead, pushes, fetchOk, lastGood, syncPre, obs>>

\* The tip update_tips writes next: the advertised refs in their order.
NextTip(S) == RefOrder[CHOOSE i \in 1..Len(RefOrder) :
                  /\ RefOrder[i] \in S
                  /\ \A j \in 1..(i - 1) : RefOrder[j] \notin S]

\* remote.update_tips(..)?: every advertised ref is written to the mirror, one
\* reference at a time (forced, nothing pruned); then Ok(repo).
fetch_repo_update_tips(p) ==
  /\ pc[p] = "tips"
  /\ LET m == cur[p] IN
       \/ /\ pending[p] = {}
          /\ exists[m]
          /\ FetchCompleted(p)
          /\ Goto(p, "refs_read")
          /\ UNCHANGED <<refs, pending>>
       \/ /\ pending[p] # {}
          /\ exists[m]
          /\ LET n == NextTip(pending[p]) IN
               /\ refs' = [refs EXCEPT ![m][n] = snap[p][n]]
               /\ pending' = [pending EXCEPT ![p] = @ \ {n}]
          /\ UNCHANGED <<pc, fetchOk>>
       \/ /\ ReturnErr(p)
          /\ UNCHANGED <<refs, pending, fetchOk>>
  /\ UNCHANGED <<renderVars, config, active, queue, cur, runs, snap, output, wpos, exists, HEAD,
                 refsInfo, remoteRefs, remoteHead, pushes, lastGood, syncPre, obs>>

\* update_refs_info, the loop over repo.references()?
update_refs_info_read(p) ==
  /\ pc[p] = "refs_read"
  /\ \/ /\ exists[cur[p]]
        /\ output' = [output EXCEPT ![p] = RefsInfoOutput(refs[cur[p]])]
        /\ Goto(p, "refs_create")
     \/ /\ ReturnErr(p)
        /\ UNCHANGED output
  /\ UNCHANGED <<renderVars, config, active, queue, cur, runs, snap, pending, wpos, exists, refs, HEAD,
                 refsInfo, remoteRefs, remoteHead, pushes, fetchOk, lastGood, syncPre, obs>>

\* What opening info/refs for fs::write leaves in the file: File::create
\* truncates the file in place.
CreateFile(f) == [exists |-> TRUE, lines |-> <<>>]

\* update_refs_info: create_dir_all and the opening half of fs::write.
update_refs_info_create(p) ==
  /\ pc[p] = "refs_create"
  /\ LET m == cur[p] IN
       \/ /\ exists[m]
          /\ refsInfo' = [refsInfo EXCEPT ![m] = CreateFile(@)]
          /\ wpos' = [wpos EXCEPT ![p] = 0]
          /\ Goto(p, "refs_write")
       \/ /\ ReturnErr(p)
          /\ UNCHANGED <<refsInfo, wpos>>
  /\ UNCHANGED <<renderVars, config, active, queue, cur, runs, snap, pending, output, exists, refs, HEAD,
                 remoteRefs, remoteHead, pushes, fetchOk, lastGood, syncPre, obs>>

\* update_refs_info: the write_all half of fs::write, line by line, then Ok(()).
update_refs_info_write(p) ==
  /\ pc[p] = "refs_write"
  /\ LET m == cur[p] IN
       \/ /\ wpos[p] = Len(output[p])
          /\ Goto(p, "head")
          /\ UNCHANGED <<refsInfo, wpos>>
       \/ /\ wpos[p] < Len(output[p])
          /\ exists[m]
          /\ refsInfo' = [refsInfo EXCEPT ![m] =
                 [exists |-> TRUE,
                  lines |-> WriteAt(@.lines, wpos[p] + 1, output[p][wpos[p] + 1])]]
          /\ wpos' = [wpos EXCEPT ![p] = @ + 1]
          /\ UNCHANGED pc
       \/ /\ wpos[p] < Len(output[p])
          /\ ReturnErr(p)
          /\ UNCHANGED <<refsInfo, wpos>>
  /\ UNCHANGED <<renderVars, config, active, queue, cur, runs, snap, pending, output, exists, refs, HEAD,
                 remoteRefs, remoteHead, pushes, fetchOk, lastGood, syncPre, obs>>

\* The mirror as a sync that returned Ok left it.
Synced(m, h) == [synced |-> TRUE, refs |-> refs[m], refsInfo |-> refsInfo[m], HEAD |-> h]

\* update_head: repo.set_head(..)?; the iteration of update_repos ends.
update_head(p) ==
  /\ pc[p] = "head"
  /\ LET m == cur[p] IN
       \/ /\ exists[m]
          /\ HEAD' = [HEAD EXCEPT ![m] = HeadRef(RepoConfig[m])]
          /\ lastGood' = [lastGood EXCEPT ![m] = Synced(m, HeadRef(RepoConfig[m]))]
          /\ Goto(p, "iter")
       \/ /\ ReturnErr(p)
          /\ UNCHANGED <<HEAD, lastGood>>
  /\ UNCHANGED <<renderVars, config, active, queue, cur, runs, snap, pending, output, wpos, exists, refs,
                 refsInfo, remoteRefs, remoteHead, pushes, fetchOk, syncPre, obs>>

\* The environment: a push to the remote of m moves or creates one of its refs.
remote_push(m) ==
  /\ pushes < MaxPushes
  /\ \E n \in RefNames, v \in Oids :
       /\ remoteRefs[m][n] # v
       /\ remoteRefs' = [remoteRefs EXCEPT ![m][n] = v]
  /\ pushes' = pushes + 1
  /\ UNCHANGED <<renderVars, config, active, pc, queue, cur, runs, snap, pending, output, wpos, exists, refs,
                 HEAD, refsInfo, remoteHead, fetchOk, lastGood, syncPre, obs>>

\* The labels at which an invocation is inside the sync of cur[p].
SyncPcs == {"clone", "clone_fetch", "clone_cfg", "open", "download", "disconnect", "tips",
            "refs_read", "refs_create", "refs_write", "head"}

\* The labels at which output[p] is the index the sync is writing.
WritePcs == {"refs_create", "refs_write", "head"}

InSync(p, m) == p \in active /\ cur[p] = m /\ pc[p] \in SyncPcs

\* What a read of info/refs that returns `content` has seen of the sync of m in
\* flight: the file as it was when the sync began ("pre"), the complete file the
\* sync writes ("post"), or neither ("partial"); "quiet" when no sync is in flight.
Observed(m, content) ==
  IF ~\E p \in Procs : InSync(p, m) THEN "quiet"
  ELSE IF content = syncPre[m] THEN "pre"
  ELSE IF \E p \in Procs : /\ InSync(p, m)
                           /\ pc[p] \in WritePcs
                           /\ content = [exists |-> TRUE, lines |-> output[p]]
         THEN "post"
  ELSE "partial"

\* A reader of the mirror (a request served by the web process, or any client of
\* info/refs) reads the ref index at an arbitrary moment.
reader_observe(m) ==
  /\ exists[m]
  /\ obs' = [repo |-> m, seen |-> Observed(m, refsInfo[m])]
  /\ UNCHANGED <<renderVars, config, active, pc, queue, cur, runs, snap, pending, output, wpos, exists, refs,
                 HEAD, refsInfo, remoteRefs, remoteHead, pushes, fetchOk, lastGood, syncPre>>

\* One step of an update-repos invocation.
SyncNext ==
  \/ \E p \in active : update_repos_start(p)
  \/ \E p \in active : update_repos_iter(p)
  \/ \E p \in active : clone_repository_init(p)
  \/ \E p \in active : clone_repository_fetch(p)
  \/ \E p \in active : clone_repository_config(p)
  \/ \E p \in active : fetch_repo_open(p)
  \/ \E p \in active : fetch_repo_download(p)
  \/ \E p \in active : fetch_repo_disconnect(p)
  \/ \E p \in active : fetch_repo_update_tips(p)
  \/ \E p \in active : update_refs_info_read(p)
  \/ \E p \in active : update_refs_info_create(p)
  \/ \E p \in active : update_refs_info_write(p)
  \/ \E p \in active : update_head(p)

Next ==
  \/ SyncNext
  \/ \E m \in config : remote_push(m)
  \/ \E m \in config : reader_observe(m)

Spec == Init /\ [][Next]_vars

\* Two update-repos invocations over the same configuration, each run once, side
\* by side, against remotes that stand still.
InitTwo ==
  /\ active = {1, 2}
  /\ config = {"r1"}
  /\ SyncInit(MaxRuns - 1)
  /\ RenderIdle
  /\ history = StoreHistory

SpecTwo == InitTwo /\ [][SyncNext]_vars

\* One update-repos invocation, run once, over a configuration of three
\* repositories of which any may have been mirrored by an earlier invocation (at
\* the child commit; the remotes have since moved to the merge commit).
InitBatch ==
  /\ active = {1}
  /\ config = Repos
  /\ pc = [p \in Procs |-> "idle"]
  /\ queue = [p \in Procs |-> <<>>]
  /\ cur = [p \in Procs |-> NoRepo]
  /\ runs = [p \in Procs |-> MaxRuns - 1]
  /\ snap = [p \in Procs |-> NoRefs]
  /\ pending = [p \in Procs |-> {}]
  /\ output = [p \in Procs |-> <<>>]
  /\ wpos = [p \in Procs |-> 0]
  /\ exists \in [Repos -> BOOLEAN]
  /\ refs = [m \in Repos |-> IF exists[m]
                                THEN [n \in RefNames |->
                                        IF n = "refs/heads/main" THEN IdChild ELSE NoRef]
                                ELSE NoRefs]
  /\ HEAD = [m \in Repos |-> IF exists[m] THEN HeadRef(RepoConfig[m]) ELSE InitialHead]
  /\ refsInfo = [m \in Repos |-> IF exists[m]
                                    THEN [exists |-> TRUE, lines |-> RefsInfoOutput(refs[m])]
                                    ELSE NoFile]
  /\ remoteRefs = [m \in Repos |-> [n \in RefNames |-> IF n = "refs/heads/main" THEN IdMerge ELSE NoRef]]
  /\ remoteHead = [m \in Repos |-> "refs/heads/main"]
  /\ pushes = 0
  /\ fetchOk = [p \in Procs |-> FALSE]
  /\ lastGood = [m \in Repos |-> IF exists[m] THEN Synced(m, HEAD[m]) ELSE NeverSynced]
  /\ syncPre = [m \in Repos |-> NoFile]
  /\ obs = NoObs
  /\ RenderIdle
  /\ history = StoreHistory

SpecBatch == InitBatch /\ [][SyncNext]_vars

\* ------------------------------------------------------------------------
\* The synchronizer's claims
\* ------------------------------------------------------------------------

\* C1: once a mirror has been synced successfully, a later sync of it that fails
\* (at any step) leaves its refs, its info/refs and its HEAD exactly as the last
\* successful sync left them.
C1_FailedSyncLeavesMirrorUntouched ==
  \A p \in active :
    (pc[p] = "failed" /\ cur[p] # NoRepo /\ lastGood[cur[p]].synced) =>
      LET m == cur[p] IN
        /\ refs[m] = lastGood[m].refs
        /\ refsInfo[m] = lastGood[m].refsInfo
        /\ HEAD[m] = lastGood[m].HEAD

\* C2: a reader concurrent with a sync of a mirror sees the complete ref index of
\* before the sync or the complete one the sync writes, never anything else.
C2_ReaderSeesCompleteIndex == obs.seen # "partial"

\* C3: two update-repos invocations are never inside the sync (clone/fetch,
\* ref-index write, HEAD update) of the same mirror at the same time.
C3_SyncsOfAMirrorSerialized ==
  \A p, q \in active : \A m \in Repos :
    (InSync(p, m) /\ InSync(q, m)) => p = q

\* C4: within one sync the ref index is regenerated and HEAD repointed only after
\* the clone or fetch of the same call returned Ok, every tip written.
C4_IndexAndHeadOnlyAfterFetch ==
  \A p \in active :
    pc[p] \in {"refs_read", "refs_create", "refs_write", "head"} =>
      /\ fetchOk[p]
      /\ pending[p] = {}
      /\ exists[cur[p]]

\* C4's case: the second sync of a mirror, by the fetch path, is writing the index.
C4_Witness ==
  \E p \in active :
    /\ pc[p] = "refs_write"
    /\ wpos[p] = 1
    /\ lastGood[cur[p]].synced
    /\ refs[cur[p]] # lastGood[cur[p]].refs

\* A sync of cur[p] has just returned Ok to update_repos.
SyncCompleted(p) == pc[p] \in {"iter", "done"} /\ cur[p] # NoRepo

IdSrcTree == "5555555555555555555555555555555555555555"

\* A well-formed object id that names no object of the mirror.
IdAbsent == "9999999999999999999999999999999999999999"

CommitIds == {IdRoot, IdChild, IdSide, IdMerge}

\* commit.parents() and commit.tree()
Commit(id) ==
  CASE id = IdRoot  -> [parents |-> <<>>, tree |-> "t-root"]
    [] id = IdChild -> [parents |-> <<IdRoot>>, tree |-> "t-child"]
    [] id = IdSide  -> [parents |-> <<IdRoot>>, tree |-> "t-side"]
    [] id = IdMerge -> [parents |-> <<IdChild, IdSide>>, tree |-> "t-merge"]

Entry(n, k, i) == [name |-> n, kind |-> k, id |-> i]

\* The entries of a tree object, in stored order. kind is the entry's object
\* type: "tree", "blob", or "commit" for a submodule link.
Tree(t) ==
  CASE t = "t-root"  -> <<Entry("README.md", "blob", "b-readme1"),
                          Entry("src", "tree", IdSrcTree)>>
    [] t = IdSrcTree -> <<Entry("main.rs", "blob", "b-main")>>
    [] t = "t-src2"  -> <<Entry("app.json", "blob", "b-json"),
                          Entry("main.rs", "blob", "b-main")>>
    [] t = "t-child" -> <<Entry("README.md", "blob", "b-readme2"),
                          Entry("doc.pdf", "blob", "b-pdf"),
                          Entry("src", "tree", "t-src2")>>
    [] t = "t-side"  -> <<Entry("README.md", "blob", "b-readme1"),
                          Entry("latin1.txt", "blob", "b-latin1"),
                          Entry("src", "tree", IdSrcTree),
                          Entry("vendor", "commit", IdAbsent)>>
    [] t = "t-merge" -> <<Entry("README.md", "blob", "b-readme2"),
                          Entry("doc.pdf", "blob", "b-pdf"),
                          Entry("src", "tree", "t-src2"),
                          Entry("vendor", "commit", IdAbsent)>>

\* A blob: its lines, whether blob.is_binary() (a NUL among its first bytes), and
\* whether its bytes are valid UTF-8.
Blob(b) ==
  CASE b = "b-readme1" -> [lines |-> <<"hello">>, binary |-> FALSE, utf8 |-> TRUE]
    [] b = "b-readme2" -> [lines |-> <<"hello", "world">>, binary |-> FALSE, utf8 |-> TRUE]
    [] b = "b-main"    -> [lines |-> <<"fn main() {", "}">>, binary |-> FALSE, utf8 |-> TRUE]
    [] b = "b-json"    -> [lines |-> <<"{}">>, binary |-> FALSE, utf8 |-> TRUE]
    [] b = "b-pdf"     -> [lines |-> <<"%PDF", "\\0\\0">>, binary |-> TRUE, utf8 |-> FALSE]
    [] b = "b-latin1"  -> [lines |-> <<"caf\\xe9">>, binary |-> FALSE, utf8 |-> FALSE]

\* ------------------------------------------------------------------------
\* Strings
\* ------------------------------------------------------------------------

Char(str, i) == SubSeq(str, i, i)

\* str.ends_with(c), c one character
EndsWith(str, c) == Len(str) >= 1 /\ Char(str, Len(str)) = c

\* &str[i..]
From(str, i) == SubSeq(str, i, Len(str))

\* The number of characters of str before its first `/` (all, if it has none).
FilenameLen(str) ==
  IF \E i \in 1..Len(str) : Char(str, i) = "/"
    THEN (CHOOSE i \in 1..Len(str) :
            Char(str, i) = "/" /\ \A j \in 1..(i - 1) : Char(str, j) # "/") - 1
    ELSE Len(str)

HexDigits == {"0", "1", "2", "3", "4", "5", "6", "7", "8", "9",
              "a", "b", "c", "d", "e", "f", "A", "B", "C", "D", "E", "F"}

\* The length of an object id in hexadecimal characters.
OidHexLen == 40

\* ------------------------------------------------------------------------
\* utils.rs: ObjectId
\* ------------------------------------------------------------------------

\* Oid::from_str: a non-empty string of at most 40 hexadecimal characters parses;
\* a shorter one is an id whose remaining characters are 0.
OidParses(v) ==
  /\ Len(v) >= 1
  /\ Len(v) <= OidHexLen
  /\ \A i \in 1..Len(v) : Char(v, i) \in HexDigits

RECURSIVE Zeros(_)
Zeros(n) == IF n = 0 THEN "" ELSE "0" \o Zeros(n - 1)

\* OidVisitor::visit_str on a string that parses.
OidFromStr(v) == v \o Zeros(OidHexLen - Len(v))

\* ------------------------------------------------------------------------
\* routes/repo.rs and errors.rs
\* ------------------------------------------------------------------------

\* The outcomes of a handler: Ok(body), Err(GititError), the rejection of the
\* Path extractor before the handler runs, and a panic inside the handler.
Ok(body) == [kind |-> "Ok", err |-> "", target |-> "", body |-> body]

Err(e) == [kind |-> "Err", err |-> e, target |-> "", body |-> <<>>]

Redirect(target) == [kind |-> "Err", err |-> "Redirect", target |-> target, body |-> <<>>]

Rejected == [kind |-> "Rejected", err |-> "", target |-> "", body |-> <<>>]

Panic == [kind |-> "Panic", err |-> "", target |-> "", body |-> <<>>]

\* repo_from_name: config.repos.get(..).ok_or(NotFound), then open_bare, whose
\* NotFound becomes GititError::NotFound.
repo_from_name(repo_name) ==
  IF repo_name \notin config THEN Err("NotFound")
  ELSE IF ~exists[repo_name] THEN Err("NotFound")
  ELSE Ok(repo_name)

\* repo.find_commit(oid): the object must exist and be a commit.
find_commit(oid) == IF oid \in CommitIds THEN Ok(oid) ELSE Err("GitError")

EntryNamed(t, n) == {i \in 1..Len(Tree(t)) : Tree(t)[i].name = n}

\* The entry of tree t named by the first len characters of path.
EntryAt(t, path, len) == Tree(t)[CHOOSE i \in EntryNamed(t, SubSeq(path, 1, len)) : TRUE]

RECURSIVE get_path(_, _)

\* get_path once the first component (len characters) named an entry.
get_path_entry(entry, path, len) ==
  IF len = Len(path) THEN Ok(entry)
  ELSE IF entry.kind # "tree" THEN Err("GitError")
  ELSE IF len + 1 = Len(path) THEN Ok(entry)
  ELSE get_path(entry.id, From(path, len + 2))

\* get_path with the length of the first component of path.
get_path_first(t, path, len) ==
  IF len = 0 \/ EntryNamed(t, SubSeq(path, 1, len)) = {} THEN Err("GitError")
  ELSE get_path_entry(EntryAt(t, path, len), path, len)

\* tree.get_path: entry by entry along the `/`-separated path; an empty
\* component, a missing entry, or a non-tree entry followed by `/` is an error.
get_path(t, path) == get_path_first(t, path, FilenameLen(path))

\* render_tree: the entries that are trees or blobs, others skipped with a warning.
render_tree(commit, path, t) ==
  Ok([view |-> "tree", path |-> path,
      files |-> SelectSeq(Tree(t), LAMBDA f : f.kind \in {"tree", "blob"})])

\* The positions of the dots of path's last component (its first and its last
\* character aside) that may start an extension.
ExtensionDots(path) ==
  {i \in 1..Len(path) :
     /\ Char(path, i) = "."
     /\ \A j \in i..Len(path) : Char(path, j) # "/"
     /\ i > 1 /\ Char(path, i - 1) # "/"
     /\ i < Len(path)}

ExtensionAfter(path, dots) ==
  IF dots = {} THEN ""
  ELSE From(path, (CHOOSE i \in dots : \A j \in dots : j <= i) + 1)

\* Path::extension: the part of the path's last component after its last `.`.
Extension(path) == ExtensionAfter(path, ExtensionDots(path))

\* mime_guess::from_path(path).first_or_octet_stream()
MimeOfExtension(ext) ==
  CASE ext = "png"  -> "image/png"
    [] ext = "txt"  -> "text/plain"
    [] ext = "md"   -> "text/markdown"
    [] ext = "rs"   -> "text/x-rust"
    [] ext = "json" -> "application/json"
    [] ext = "pdf"  -> "application/pdf"
    [] OTHER        -> "application/octet-stream"

StartsWith(str, prefix) ==
  Len(str) >= Len(prefix) /\ SubSeq(str, 1, Len(prefix)) = prefix

\* The inferred type served as it is.
safe_mime_unchanged(mime) == mime

\* safe_mime
safe_mime(mime) ==
  IF StartsWith(mime, "application/") THEN "application/octet-stream" ELSE mime

\* templates::syntax_highlight: the syntax found by extension, else plain text.
syntax_highlight(extension, code) ==
  [syntax |-> IF extension \in {"rs", "json", "md", "patch"} THEN extension ELSE "txt",
   code |-> code]

\* render_file on the blob's content; std::str::from_utf8(..).unwrap() panics on a
\* text blob that is not UTF-8.
render_blob(path, blob, extension) ==
  IF blob.binary
    THEN Ok([view |-> "raw", content_type |-> safe_mime(MimeOfExtension(extension)),
             data |-> blob.lines])
  ELSE IF ~blob.utf8 THEN Panic
  ELSE Ok([view |-> "file", path |-> path,
           content |-> syntax_highlight(IF extension = "" THEN "txt" ELSE extension,
                                        blob.lines)])

render_file(commit, path, b) == render_blob(path, Blob(b), Extension(path))

\* The Location with the query string left behind.
RedirectTargetNoQuery(uri) == uri.path \o "/"

\* The Location of the redirect to the directory's canonical address.
RedirectTarget(uri) ==
  IF uri.has_query THEN uri.path \o "/?" \o uri.query ELSE uri.path \o "/"

\* commit_tree from the entry that tree.get_path found.
commit_tree_entry(oid, path, full_uri, subtree) ==
  IF subtree.kind # "Ok" THEN subtree
  ELSE CASE subtree.body.kind = "tree" ->
              IF ~EndsWith(path, "/") THEN Redirect(RedirectTarget(full_uri))
              ELSE render_tree(oid, path, subtree.body.id)
         [] subtree.body.kind = "blob" -> render_file(oid, path, subtree.body.id)
         [] OTHER -> Err("NotFound")

\* commit_tree from the commit's tree.
commit_tree_at(oid, path, full_uri, t) ==
  IF Len(path) <= 1 THEN render_tree(oid, path, t)
  ELSE commit_tree_entry(oid, path, full_uri, get_path(t, From(path, 2)))

\* The `?` of repo_from_name(..)? and repo.find_commit(..)?: the first error
\* returns, else the handler goes on.
Try(repo, found, rest) ==
  IF repo.kind # "Ok" THEN repo ELSE IF found.kind # "Ok" THEN found ELSE rest

\* commit_tree: what the handler returns once the Path extractor accepted the
\* commit id.
commit_tree_result(repo_name, oid, path, full_uri) ==
  Try(repo_from_name(repo_name), find_commit(oid),
      commit_tree_at(oid, path, full_uri, Commit(oid).tree))

\* ------------------------------------------------------------------------
\* utils.rs: templates (diffs)
\* ------------------------------------------------------------------------

\* The paths of the files of the store's trees, in the order a diff lists them.
FileOrder == <<"README.md", "doc.pdf", "latin1.txt", "src/app.json", "src/main.rs", "vendor">>

\* None as the old tree of diff_tree_to_tree: the empty tree.
NoTree == "no-tree"

NoEntry == Entry("", "none", "")

FileOf(r) == IF r.kind = "Ok" /\ r.body.kind # "tree" THEN r.body ELSE NoEntry

\* The file (blob or submodule link) a tree holds at a path, if any.
FileAt(t, path) == IF t = NoTree THEN NoEntry ELSE FileOf(get_path(t, path))

\* The text the diff compares for one side of a file: a blob's lines, and for a
\* submodule link the one line naming its commit.
SideLines(e) ==
  CASE e.kind = "blob"   -> [i \in 1..Len(Blob(e.id).lines) |->
                               [content |-> Blob(e.id).lines[i], utf8 |-> Blob(e.id).utf8]]
    [] e.kind = "commit" -> <<[content |-> "Subproject commit " \o e.id, utf8 |-> TRUE]>>
    [] OTHER             -> <<>>

SideBinary(e) == e.kind = "blob" /\ Blob(e.id).binary

RECURSIVE LcsLen(_, _)
LcsLen(a, b) ==
  IF a = <<>> \/ b = <<>> THEN 0
  ELSE IF Head(a) = Head(b) THEN 1 + LcsLen(Tail(a), Tail(b))
  ELSE Max(LcsLen(Tail(a), b), LcsLen(a, Tail(b)))

Line(o, l) == [origin |-> o, content |-> l.content, utf8 |-> l.utf8]

\* The lines of a hunk that turns a into b: context ` `, removed `-`, added `+`
\* (files this short fit one hunk, every unchanged line in its context).
RECURSIVE Hunk(_, _)
Hunk(a, b) ==
  IF a = <<>> /\ b = <<>> THEN <<>>
  ELSE IF a = <<>> THEN <<Line("+", Head(b))>> \o Hunk(a, Tail(b))
  ELSE IF b = <<>> THEN <<Line("-", Head(a))>> \o Hunk(Tail(a), b)
  ELSE IF Head(a) = Head(b) THEN <<Line(" ", Head(a))>> \o Hunk(Tail(a), Tail(b))
  ELSE IF LcsLen(Tail(a), b) >= LcsLen(a, Tail(b))
         THEN <<Line("-", Head(a))>> \o Hunk(Tail(a), b)
  ELSE <<Line("+", Head(b))>> \o Hunk(a, Tail(b))

Ascii(o, text) == [origin |-> o, content |-> text, utf8 |-> TRUE]

DeltaBody(binary, hunk) ==
  IF binary THEN <<Ascii("B", "Binary files differ")>>
  ELSE IF hunk = <<>> THEN <<>>
  ELSE <<Ascii("H", "@@")>> \o hunk

\* What diff.print(DiffFormat::Patch) yields for one changed file: the file
\* header `F`, then `B` for a binary file, else the hunk header `H` and its lines.
DeltaLines(path, old, new) ==
  <<Ascii("F", "diff --git a/" \o path \o " b/" \o path)>> \o
  DeltaBody(SideBinary(old) \/ SideBinary(new), Hunk(SideLines(old), SideLines(new)))

FileDelta(path, old, new) == IF old = new THEN <<>> ELSE DeltaLines(path, old, new)

\* The lines of the diff for the file at one path (none if it did not change).
FilePatch(path, a, b) == FileDelta(path, FileAt(a, path), FileAt(b, path))

RECURSIVE Flatten(_)
Flatten(seqs) == IF seqs = <<>> THEN <<>> ELSE Head(seqs) \o Flatten(Tail(seqs))

\* repo.diff_tree_to_tree(a, Some(b), ..), as the lines its Patch print yields.
diff_tree_to_tree(a, b) ==
  Flatten([i \in 1..Len(FileOrder) |-> FilePatch(FileOrder[i], a, b)])

\* The old side with the first parent taken whatever the number of parents.
BaseFirstParent(commit) ==
  IF Len(Commit(commit).parents) >= 1 THEN Commit(Commit(commit).parents[1]).tree ELSE NoTree

\* makediff's `a`: the parent's tree of a commit with exactly one parent, else None.
Base(commit) ==
  IF Len(Commit(commit).parents) = 1 THEN Commit(Commit(commit).parents[1]).tree ELSE NoTree

\* templates::makediff
makediff(commit) == diff_tree_to_tree(Base(commit), Commit(commit).tree)

Count(lines, o) == Cardinality({i \in 1..Len(lines) : lines[i].origin = o})

RECURSIVE Origins(_)
Origins(lines) ==
  IF lines = <<>> THEN ""
  ELSE (IF Head(lines).origin \in {" ", "+", "-"} THEN Head(lines).origin ELSE "")
       \o Origins(Tail(lines))

diff_info_of(diff) ==
  [summary |-> Origins(diff), added |-> Count(diff, "+"), removed |-> Count(diff, "-")]

\* templates::diff_info: (output, (added, removed))
diff_info(commit) == diff_info_of(makediff(commit))

\* templates::format_line
format_line(line, c, raw) == IF raw THEN line ELSE c \o " " \o line

\* full_diff over the lines of the diff; std::str::from_utf8(line.content())
\* .unwrap() panics on a line that is not UTF-8.
full_diff_of(diff, raw) ==
  IF \E i \in 1..Len(diff) : ~diff[i].utf8 THEN Panic
  ELSE IF raw
    THEN Ok([i \in 1..Len(diff) |-> format_line(diff[i].content, " ", TRUE)])
  ELSE Ok(syntax_highlight("patch",
            [i \in 1..Len(diff) |->
               format_line(diff[i].content,
                           IF diff[i].origin \in {"+", "-"} THEN diff[i].origin ELSE " ",
                           FALSE)]))

\* templates::full_diff
full_diff(commit, raw) == full_diff_of(makediff(commit), raw)

\* templates::commit_to_object (the author and the message are left out)
commit_to_object(commit) ==
  [hash |-> commit, short_hash |-> SubSeq(commit, 1, 7), diff |-> diff_info(commit)]

\* The page of a commit, unless rendering its diff failed.
commit_page(object, diff) ==
  IF diff.kind # "Ok" THEN diff
  ELSE Ok([view |-> "commit", commit |-> object, diff |-> diff.body])

\* commit: what the handler returns once the Path extractor accepted the commit id.
commit_result(repo_name, oid) ==
  Try(repo_from_name(repo_name), find_commit(oid),
      commit_page(commit_to_object(oid), full_diff(oid, FALSE)))

commit_raw_page(diff) ==
  IF diff.kind # "Ok" THEN diff
  ELSE Ok([view |-> "diff", content_type |-> "text/plain; charset=utf-8", data |-> diff.body])

\* commit_raw: likewise, the diff as plain text.
commit_raw_result(repo_name, oid) ==
  Try(repo_from_name(repo_name), find_commit(oid), commit_raw_page(full_diff(oid, TRUE)))

\* ------------------------------------------------------------------------
\* Requests
\* ------------------------------------------------------------------------

\* Repository names of requests: a mirrored one, a configured one whose mirror
\* does not exist yet, and an unknown one.
RepoNames == {"r1", "r2", "nope"}

\* Commit ids of requests: the commits, an existing tree, a well-formed id of no
\* object, an abbreviated id, and two strings that are no object ids.
CommitIdInputs ==
  {IdRoot, IdChild, IdSide, IdMerge, IdSrcTree, IdAbsent, "2222222", "not-a-commit-id",
   IdChild \o "2"}

\* Tree paths of requests (the wildcard of the route, `/` first).
PathInputs ==
  {"/", "/src", "/src/", "/src/main.rs", "/src/app.json", "/README.md", "/README.md/",
   "/doc.pdf", "/latin1.txt", "/vendor", "/nosuch", "/src/nosuch", "/src//"}

NoQuery == [has_query |-> FALSE, query |-> ""]

Queries == {NoQuery, [has_query |-> TRUE, query |-> "x=1"], [has_query |-> TRUE, query |-> ""]}

\* routes/mod.rs: the path of the request's URI, by route
UriPath(handler, repo_name, commit_id, path) ==
  "/" \o repo_name \o "/commit/" \o commit_id \o
  (CASE handler = "commit" -> "/"
     [] handler = "commit_raw" -> "/diff"
     [] handler = "commit_tree" -> "/contents" \o path)

\* A request arrives and the router picks its handler.
receive ==
  /\ rphase = "idle"
  /\ \E handler \in {"commit", "commit_raw", "commit_tree"}, repo_name \in RepoNames,
        commit_id \in CommitIdInputs,
        path \in PathInputs, q \in Queries :
       /\ handler # "commit_tree" => (path = "/" /\ q = NoQuery)
       /\ req' = [handler |-> handler, repo |-> repo_name, commit_id |-> commit_id,
                  path |-> path,
                  uri |-> [path |-> UriPath(handler, repo_name, commit_id, path),
                           has_query |-> q.has_query, query |-> q.query]]
  /\ result' = NoResult
  /\ resp' = NoResp
  /\ errorLog' = FALSE
  /\ rphase' = "received"
  /\ UNCHANGED <<history, walk, syncVars>>

\* Path<(String, ObjectId, ..)>: a commit id that OidVisitor refuses is rejected
\* by the extractor and the handler does not run.
Extracted(r, handled) == IF ~OidParses(r.commit_id) THEN Rejected ELSE handled

commit ==
  /\ rphase = "received"
  /\ req.handler = "commit"
  /\ result' = Extracted(req, commit_result(req.repo, OidFromStr(req.commit_id)))
  /\ rphase' = "handled"
  /\ UNCHANGED <<req, resp, errorLog, history, walk, syncVars>>

commit_raw ==
  /\ rphase = "received"
  /\ req.handler = "commit_raw"
  /\ result' = Extracted(req, commit_raw_result(req.repo, OidFromStr(req.commit_id)))
  /\ rphase' = "handled"
  /\ UNCHANGED <<req, resp, errorLog, history, walk, syncVars>>

commit_tree ==
  /\ rphase = "received"
  /\ req.handler = "commit_tree"
  /\ result' = Extracted(req, commit_tree_result(req.repo, OidFromStr(req.commit_id),
                                                  req.path, req.uri))
  /\ rphase' = "handled"
  /\ UNCHANGED <<req, resp, errorLog, history, walk, syncVars>>

\* HtmlOrRaw::into_response: the Content-Type of a rendered page or raw blob.
ContentType(body) ==
  CASE body.view \in {"raw", "diff"} -> body.content_type
    [] OTHER -> "text/html; charset=utf-8"

\* GititError::into_response: the status and the body (or the Location).
GititErrorResponse(r) ==
  CASE r.err = "LiquidError" -> [status |-> 500, location |-> "", body |-> "templating error"]
    [] r.err = "GitError" -> [status |-> 500, location |-> "", body |-> "git error"]
    [] r.err = "NotFound" -> [status |-> 404, location |-> "", body |-> "not found"]
    [] r.err = "HighlightingError" -> [status |-> 500, location |-> "", body |-> "highlighting error"]
    [] r.err = "Redirect" -> [status |-> 307, location |-> r.target, body |-> ""]
    [] OTHER -> [status |-> 500, location |-> "", body |-> "internal server error"]

\* GititError::into_response begins with tracing::error!("{}", self), whatever
\* the variant.
GititErrorLogged(r) == TRUE

\* The response to the handler's outcome: IntoResponse of the Ok value (200), of
\* the GititError, of the extractor's rejection (400); a panic closes the
\* connection without a response.
into_response ==
  /\ rphase = "handled"
  /\ resp' = CASE result.kind = "Ok" -> [status |-> 200, location |-> "", body |-> "ok"]
               [] result.kind = "Err" -> GititErrorResponse(result)
               [] result.kind = "Rejected" -> [status |-> 400, location |-> "", body |-> "invalid OID"]
               [] OTHER -> [status |-> 0, location |-> "", body |-> "connection closed"]
  /\ errorLog' = (result.kind = "Err" /\ GititErrorLogged(result))
  /\ rphase' = "responded"
  /\ UNCHANGED <<req, result, history, walk, syncVars>>

\* The request is over; the process waits for the next one.
finish ==
  /\ rphase = "responded"
  /\ req' = NoReq
  /\ result' = NoResult
  /\ resp' = NoResp
  /\ errorLog' = FALSE
  /\ rphase' = "idle"
  /\ UNCHANGED <<history, walk, syncVars>>

\* The web process over a configuration of two repositories of which r1 has been
\* mirrored (at the merge commit) and r2 not yet; no update-repos is running.
Mirrored ==
  /\ active = {}
  /\ config = Repos
  /\ pc = [p \in Procs |-> "idle"]
  /\ queue = [p \in Procs |-> <<>>]
  /\ cur = [p \in Procs |-> NoRepo]
  /\ runs = [p \in Procs |-> 0]
  /\ snap = [p \in Procs |-> NoRefs]
  /\ pending = [p \in Procs |-> {}]
  /\ output = [p \in Procs |-> <<>>]
  /\ wpos = [p \in Procs |-> 0]
  /\ exists = [m \in Repos |-> m = "r1"]
  /\ remoteRefs = [m \in Repos |-> [n \in RefNames |-> IF n = "refs/heads/main" THEN IdMerge ELSE NoRef]]
  /\ remoteHead = [m \in Repos |-> "refs/heads/main"]
  /\ refs = [m \in Repos |-> IF m = "r1" THEN remoteRefs[m] ELSE NoRefs]
  /\ HEAD = [m \in Repos |-> IF m = "r1" THEN HeadRef(RepoConfig[m]) ELSE InitialHead]
  /\ refsInfo = [m \in Repos |-> IF m = "r1"
                                    THEN [exists |-> TRUE, lines |-> RefsInfoOutput(refs[m])]
                                    ELSE NoFile]
  /\ pushes = 0
  /\ fetchOk = [p \in Procs |-> FALSE]
  /\ lastGood = [m \in Repos |-> IF m = "r1" THEN Synced(m, HEAD[m]) ELSE NeverSynced]
  /\ syncPre = [m \in Repos |-> NoFile]
  /\ obs = NoObs
  /\ RenderIdle

RenderInit == Mirrored /\ history = StoreHistory

RenderNext ==
  \/ receive
  \/ commit
  \/ commit_raw
  \/ commit_tree
  \/ into_response
  \/ finish

SpecRender == RenderInit /\ [][RenderNext]_vars

\* ------------------------------------------------------------------------
\* routes/repo.rs: index (the recent commits of a mirror)
\* ------------------------------------------------------------------------

\* revwalk.take(500)
RecentLimit == 500

\* revwalk.push_head(): the walk starts from HEAD's commit.
push_head(h) == {h.head}

\* The parents of the commits of a set.
Parents(h, cs) == UNION {h.parents[c] : c \in cs}

\* The latest commit time among the commits lo..hi that are in the queue.
RECURSIVE LatestTime(_, _, _, _)
LatestTime(h, q, lo, hi) ==
  IF lo = hi THEN (IF lo \in q THEN h.time[lo] ELSE 0)
  ELSE Max(LatestTime(h, q, lo, (lo + hi) \div 2),
           LatestTime(h, q, (lo + hi) \div 2 + 1, hi))

\* A walk that yields its commits in no order.
revwalk_next_unsorted(h, q) == q

WithTime(h, q, t) == {c \in q : h.time[c] = t}

\* Sort::TIME: next() pops a commit of the latest commit time off the priority
\* queue (any of them, if several share it).
revwalk_next_timesort(h, q) == WithTime(h, q, LatestTime(h, q, 1, h.n))

\* A request for the index of the mirrored repository arrives.
index_receive ==
  /\ rphase = "idle"
  /\ req' = [handler |-> "index", repo |-> "r1"]
  /\ result' = NoResult
  /\ resp' = NoResp
  /\ errorLog' = FALSE
  /\ rphase' = "received"
  /\ UNCHANGED <<history, walk, syncVars>>

\* index up to the for loop: repo_from_name(..)?, repo.revwalk(), push_head(),
\* set_sorting(Sort::TIME).
index_revwalk ==
  /\ rphase = "received"
  /\ req.handler = "index"
  /\ IF repo_from_name(req.repo).kind # "Ok"
       THEN /\ result' = repo_from_name(req.repo)
            /\ rphase' = "handled"
            /\ UNCHANGED walk
       ELSE /\ walk' = [frontier |-> push_head(history), queue |-> push_head(history),
                        commits |-> <<>>]
            /\ rphase' = "walking"
            /\ UNCHANGED result
  /\ UNCHANGED <<req, resp, errorLog, history, syncVars>>

\* The first next() of a sorted walk prepares it: all of the history is walked
\* from the pushed commit through the parents, one generation a step, and every
\* commit met is put on the priority queue.
prepare_walk ==
  /\ rphase = "walking"
  /\ walk.frontier # {}
  /\ walk' = [frontier |-> Parents(history, walk.frontier) \ walk.queue,
              queue |-> walk.queue \cup Parents(history, walk.frontier),
              commits |-> walk.commits]
  /\ UNCHANGED <<req, result, resp, errorLog, rphase, history, syncVars>>

\* One iteration of `for commit in revwalk.take(500)`.
index_next ==
  /\ rphase = "walking"
  /\ walk.frontier = {}
  /\ Len(walk.commits) < RecentLimit
  /\ walk.queue # {}
  /\ \E c \in revwalk_next_timesort(history, walk.queue) :
       walk' = [frontier |-> {}, queue |-> walk.queue \ {c},
                commits |-> Append(walk.commits, c)]
  /\ UNCHANGED <<req, result, resp, errorLog, rphase, history, syncVars>>

\* The loop is over (500 commits taken, or the walk exhausted): the page is
\* rendered with the commits and repo.head()'s target.
index_render ==
  /\ rphase = "walking"
  /\ walk.frontier = {}
  /\ (Len(walk.commits) >= RecentLimit \/ walk.queue = {})
  /\ result' = Ok([view |-> "index", recent_commits |-> walk.commits, head |-> history.head])
  /\ walk' = NoWalk
  /\ rphase' = "handled"
  /\ UNCHANGED <<req, resp, errorLog, history, syncVars>>

\* A history of five commits: a root, two children of it, their merge (HEAD),
\* and a commit on another branch; every commit at any of three times.
Diamond(times) ==
  [n |-> 5,
   parents |-> [c \in 1..5 |-> CASE c = 1 -> {} [] c = 4 -> {2, 3} [] OTHER -> {1}],
   time |-> times,
   head |-> 4]

\* A history of n commits in a line, HEAD the last; with skewed clocks every
\* parent has a later commit time than its child.
LineHistory(n, skewed) ==
  [n |-> n,
   parents |-> [c \in 1..n |-> IF c = 1 THEN {} ELSE {c - 1}],
   time |-> [c \in 1..n |-> IF skewed THEN n + 1 - c ELSE c],
   head |-> n]

Histories ==
  {Diamond(times) : times \in [1..5 -> 1..3]} \cup {LineHistory(MaxHistory, k) : k \in BOOLEAN}

IndexInit == Mirrored /\ history \in Histories

IndexNext ==
  \/ index_receive
  \/ index_revwalk
  \/ prepare_walk
  \/ index_next
  \/ index_render
  \/ into_response
  \/ finish

SpecIndex == IndexInit /\ [][IndexNext]_vars

\* ------------------------------------------------------------------------
\* Properties of the request handlers
\* ------------------------------------------------------------------------

\* The request names a configured repository whose mirror exists and a commit of it.
OfExistingCommit ==
  /\ req.repo \in config
  /\ exists[req.repo]
  /\ OidParses(req.commit_id)
  /\ OidFromStr(req.commit_id) \in CommitIds

\* The tree of the commit the request names.
RequestTree == Commit(OidFromStr(req.commit_id)).tree

\* The `/`-separated segments of a path.
RECURSIVE Segments(_)
Segments(str) ==
  IF FilenameLen(str) = Len(str) THEN <<str>>
  ELSE <<SubSeq(str, 1, FilenameLen(str))>> \o Segments(From(str, FilenameLen(str) + 2))

NamedIn(t, n) == {e \in {Tree(t)[i] : i \in 1..Len(Tree(t))} : e.name = n}

\* Walking the segments down from tree t reaches a tree that has no entry of the
\* next segment's name.
RECURSIVE MissingSegment(_, _)
MissingSegment(t, segs) ==
  /\ segs # <<>>
  /\ Head(segs) # ""
  /\ \/ NamedIn(t, Head(segs)) = {}
     \/ \E e \in NamedIn(t, Head(segs)) :
          e.kind = "tree" /\ MissingSegment(e.id, Tail(segs))

\* The kind of the object the segments lead to from tree t ("none" if they lead
\* nowhere).
RECURSIVE KindAt(_, _)
KindAt(t, segs) ==
  IF segs = <<>> THEN "tree"
  ELSE IF NamedIn(t, Head(segs)) = {} THEN "none"
  ELSE LET e == CHOOSE x \in NamedIn(t, Head(segs)) : TRUE
       IN IF Tail(segs) = <<>> THEN e.kind
          ELSE IF e.kind = "tree" THEN KindAt(e.id, Tail(segs))
          ELSE "none"

\* The request's tree path without its leading `/` and without one trailing `/`.
Stem(path) ==
  IF Len(path) >= 2 /\ EndsWith(path, "/") THEN SubSeq(path, 2, Len(path) - 1)
  ELSE From(path, 2)

ResolvesToDirectory ==
  \/ Stem(req.path) = ""
  \/ KindAt(RequestTree, Segments(Stem(req.path))) = "tree"

ResolvesToFile == KindAt(RequestTree, Segments(From(req.path, 2))) = "blob"

\* C6: a resolve-path request of an existing repository and commit whose path has a
\* segment that the commit's tree does not hold is answered with NotFound (404) and
\* with no other error kind.
C6_MissingPathIsNotFound ==
  (/\ rphase = "responded"
   /\ req.handler = "commit_tree"
   /\ OfExistingCommit
   /\ MissingSegment(RequestTree, Segments(From(req.path, 2))))
  => (result = Err("NotFound") /\ resp.status = 404)

\* C7: a commit-detail, raw-diff or resolve-path request whose commit id is
\* malformed or names no commit of the mirror fails with NotFound (a malformed
\* id may instead be refused as invalid input), never with a store-level error
\* or a panic.
C7_BadCommitIdIsNotFound ==
  (/\ rphase = "responded"
   /\ req.repo \in config
   /\ exists[req.repo]
   /\ (~OidParses(req.commit_id) \/ OidFromStr(req.commit_id) \notin CommitIds))
  => \/ result = Err("NotFound") /\ resp.status = 404
     \/ result = Rejected /\ ~OidParses(req.commit_id) /\ resp.status = 400

\* The address the claim names: the request's path with one `/` appended and the
\* query string, if the request has one, after `?`.
SlashTerminated(uri) ==
  uri.path \o "/" \o (IF uri.has_query THEN "?" \o uri.query ELSE "")

\* C8: a resolve-path request for a directory whose path does not end with `/` is
\* answered with a Redirect to the request's path with one `/` appended and the
\* query string kept; a request for a directory whose path ends with `/`, and a
\* request for a file, is never answered with a Redirect.
C8_DirectoryRedirect ==
  (/\ rphase \in {"handled", "responded"}
   /\ req.handler = "commit_tree"
   /\ OfExistingCommit)
  => /\ (ResolvesToDirectory /\ ~EndsWith(req.path, "/"))
          => result = Redirect(SlashTerminated(req.uri))
     /\ ((ResolvesToDirectory /\ EndsWith(req.path, "/")) \/ ResolvesToFile)
          => result.err # "Redirect"

\* C8's case: the directory src requested without the trailing `/` and with a
\* query string has been answered.
C8_Witness ==
  /\ rphase = "responded"
  /\ req.handler = "commit_tree"
  /\ req.path = "/src"
  /\ req.uri.has_query /\ req.uri.query = "x=1"
  /\ result.err = "Redirect"
  /\ result.target = "/r1/commit/" \o IdMerge \o "/contents/src/?x=1"

\* C9: a Redirect outcome becomes a 307 response whose Location is the target, and
\* the conversion writes no error-level log entry for it.
C9_RedirectNotLoggedAsError ==
  (rphase = "responded" /\ result.err = "Redirect")
  => (resp.status = 307 /\ resp.location = result.target /\ ~errorLog)

\* The number of lines of every file of tree t.
RECURSIVE TotalLines(_, _)
TotalLines(t, i) ==
  IF i = 0 THEN 0
  ELSE TotalLines(t, i - 1) +
       (IF FileAt(t, FileOrder[i]).kind = "blob"
          THEN Len(Blob(FileAt(t, FileOrder[i]).id).lines) ELSE 0)

\* The number of lines a diff from the empty tree shows as added: those of the
\* text files of tree t, and one for each submodule link.
RECURSIVE TextLines(_, _)
TextLines(t, i) ==
  IF i = 0 THEN 0
  ELSE TextLines(t, i - 1) +
       (CASE FileAt(t, FileOrder[i]).kind = "commit" -> 1
          [] FileAt(t, FileOrder[i]).kind = "blob"
               /\ ~Blob(FileAt(t, FileOrder[i]).id).binary
               -> Len(Blob(FileAt(t, FileOrder[i]).id).lines)
          [] OTHER -> 0)

\* A commit page has been rendered for the request.
CommitRendered ==
  /\ rphase \in {"handled", "responded"}
  /\ req.handler = "commit"
  /\ result.kind = "Ok"

\* The commit of the rendered page.
Rendered == OidFromStr(req.commit_id)

\* The stats of the rendered page.
Stats == result.body.commit.diff

\* The diff of a one-parent commit against its parent.
AgainstParent(c) == diff_tree_to_tree(Commit(Commit(c).parents[1]).tree, Commit(c).tree)

\* The number of lines of the page's full diff marked with c.
Marked(c) ==
  Cardinality({i \in 1..Len(result.body.diff.code) : StartsWith(result.body.diff.code[i], c)})

\* C10 as stated: for a commit with a parent count other than 1 the removed count
\* is 0 and the added count is the total number of lines of the files of the
\* commit's tree; for a one-parent commit the counts are those of the `+` and `-`
\* lines of the diff against the parent.
C10_DiffStatsOriginal ==
  CommitRendered
  => IF Len(Commit(Rendered).parents) # 1
       THEN /\ Stats.removed = 0
            /\ Stats.added = TotalLines(Commit(Rendered).tree, Len(FileOrder))
       ELSE /\ Stats.added = Count(AgainstParent(Rendered), "+")
            /\ Stats.removed = Count(AgainstParent(Rendered), "-")

\* C10: the stats and the full diff of a commit come from one diff, against the
\* tree of the sole parent or else against the empty tree; for a commit with a
\* parent count other than 1 the removed count is 0 and the added count is the
\* number of lines of the text files of the commit's tree plus one for each
\* submodule link (a binary file adds no line); for a one-parent commit the counts
\* are those of the `+` and `-` lines of the diff against the parent.
C10_DiffStats ==
  CommitRendered
  => /\ Stats.added = Marked("+")
     /\ Stats.removed = Marked("-")
     /\ IF Len(Commit(Rendered).parents) # 1
          THEN /\ Stats.removed = 0
               /\ Stats.added = TextLines(Commit(Rendered).tree, Len(FileOrder))
          ELSE /\ Stats.added = Count(AgainstParent(Rendered), "+")
               /\ Stats.removed = Count(AgainstParent(Rendered), "-")

\* C10's case: the page of the merge commit, whose tree holds a binary file and a
\* submodule link, has been rendered.
C10_Witness ==
  /\ rphase = "responded"
  /\ req.handler = "commit"
  /\ Rendered = IdMerge
  /\ result.kind = "Ok"
  /\ Stats.added = 6
  /\ Stats.removed = 0
  /\ TotalLines(Commit(IdMerge).tree, Len(FileOrder)) = 7

\* ------------------------------------------------------------------------
\* Properties of the index
\* ------------------------------------------------------------------------

\* The commits listed so far by the walk in flight, or by the rendered page.
Listing ==
  IF rphase = "walking" THEN walk.commits
  ELSE IF req.handler = "index" /\ result.kind = "Ok" THEN result.body.recent_commits
  ELSE <<>>

\* c is HEAD's commit or an ancestor of it, by at most k parent links.
RECURSIVE ReachableWithin(_, _, _)
ReachableWithin(c, from, k) ==
  \/ c \in from
  \/ k > 0 /\ from # {}
       /\ ReachableWithin(c, UNION {history.parents[d] : d \in from}, k - 1)

\* C11: the recent-commits listing has at most 500 entries, lists only commits
\* reachable from HEAD, each once, and is ordered by non-increasing commit time,
\* whatever the commit times (a parent later than its child included).
C11_RecentCommits ==
  /\ Len(Listing) <= RecentLimit
  /\ \A i \in 1..Len(Listing) :
       /\ Listing[i] \in 1..history.n
       /\ i > 1 => history.time[Listing[i - 1]] >= history.time[Listing[i]]
  /\ (Len(Listing) > 0 /\ history.n <= 5) =>
       \A i \in 1..Len(Listing) : ReachableWithin(Listing[i], {history.head}, history.n)

\* C11's case: the page of a mirror whose history has more than 500 commits, each
\* parent later than its child, has been rendered with 500 of them.
C11_Witness ==
  /\ rphase = "handled"
  /\ req.handler = "index"
  /\ result.kind = "Ok"
  /\ Len(result.body.recent_commits) = RecentLimit
  /\ history.n > RecentLimit
  /\ history.time[history.head] < history.time[1]

\* ------------------------------------------------------------------------
\* Properties of served blobs
\* ------------------------------------------------------------------------

\* A resolve-path request of an existing commit has been handled, and its path
\* names a blob.
BlobRequested ==
  /\ rphase \in {"handled", "responded"}
  /\ req.handler = "commit_tree"
  /\ OfExistingCommit
  /\ ResolvesToFile

\* The blob the request's path names.
RequestedBlob == Blob(FileAt(RequestTree, From(req.path, 2)).id)

\* The type inferred from the extension of the request's path.
Inferred == MimeOfExtension(Extension(req.path))

\* C12 as stated: whenever the type inferred from the path's extension is of
\* category application, the blob is served as application/octet-stream, be it
\* binary or text.
C12_DowngradeWhateverTheClass ==
  (BlobRequested /\ result.kind = "Ok" /\ StartsWith(Inferred, "application/"))
  => ContentType(result.body) = "application/octet-stream"

\* C12: a blob is never served under an inferred application/* type: where the
\* type inferred from the path's extension is of category application, a blob
\* served raw goes out as application/octet-stream; and whatever the inferred type,
\* a blob that is text and valid UTF-8 (app.json) is rendered as a highlighted file.
C12_NoInferredApplicationType ==
  BlobRequested
  => /\ result.kind = "Ok"
          => (StartsWith(ContentType(result.body), "application/")
                => ContentType(result.body) = "application/octet-stream")
     /\ (RequestedBlob.binary /\ StartsWith(Inferred, "application/"))
          => /\ result.kind = "Ok"
             /\ result.body.view = "raw"
             /\ result.body.content_type = "application/octet-stream"
     /\ (~RequestedBlob.binary /\ RequestedBlob.utf8)
          => /\ result.kind = "Ok"
             /\ result.body.view = "file"
             /\ result.body.content.code = RequestedBlob.lines
             /\ ContentType(result.body) = "text/html; charset=utf-8"

\* C12's case: the text blob src/app.json, whose inferred type is
\* application/json, has been served as a highlighted file.
C12_Witness ==
  /\ rphase = "responded"
  /\ req.path = "/src/app.json"
  /\ BlobRequested
  /\ Inferred = "application/json"
  /\ result.kind = "Ok"
  /\ result.body.view = "file"
  /\ result.body.content.syntax = "json"
  /\ resp.status = 200

\* C13: a resolve-path request for a blob that is classified as text and is not
\* valid UTF-8 fails with an error of that request, answered with a 500 response;
\* the handler does not panic.
C13_UndecodableBlobIsRenderError ==
  (/\ rphase = "responded"
   /\ BlobRequested
   /\ ~RequestedBlob.binary
   /\ ~RequestedBlob.utf8)
  => (result.kind = "Err" /\ resp.status = 500)

\* ------------------------------------------------------------------------
\* Properties of the batch driver
\* ------------------------------------------------------------------------

\* The repositories later than the current one in the iteration order of p.
Later(p) == {queue[p][i] : i \in 1..Len(queue[p])}

\* The repositories the for loop of p has left behind.
Earlier(p) == IF cur[p] = NoRepo THEN {} ELSE config \ (Later(p) \cup {cur[p]})

\* A step leaves the mirror m as it is.
MirrorUntouched(m) ==
  /\ exists'[m] = exists[m]
  /\ refs'[m] = refs[m]
  /\ refsInfo'[m] = refsInfo[m]
  /\ HEAD'[m] = HEAD[m]

\* The mirror m stands as a sync that completed against its remote leaves it.
PostSync(m) ==
  /\ exists[m]
  /\ refs[m] = remoteRefs[m]
  /\ refsInfo[m] = [exists |-> TRUE, lines |-> RefsInfoOutput(remoteRefs[m])]
  /\ HEAD[m] = HeadRef(RepoConfig[m])
  /\ lastGood[m] = [synced |-> TRUE, refs |-> refs[m], refsInfo |-> refsInfo[m],
                    HEAD |-> HEAD[m]]

\* A step of p: the sync of the current repository ends, either completed (the
\* loop goes on) or with an error that update_repos returns at once.
IterationEnds(p) ==
  (pc[p] \in SyncPcs /\ pc'[p] \notin SyncPcs)
  => \/ /\ pc[p] = "head"
        /\ fetchOk[p]
        /\ pc'[p] = "iter"
        /\ PostSync(cur[p])'
     \/ /\ pc'[p] = "failed"
        /\ queue'[p] = queue[p]
        /\ cur'[p] = cur[p]

\* A step of p: only the mirror of the current repository, inside its sync, is
\* written; a repository is taken up from the head of the order only, once; and
\* an invocation that failed takes no further step.
FailFast(p) ==
  /\ IterationEnds(p)
  /\ \A m \in config : (cur[p] # m \/ pc[p] \notin SyncPcs) => MirrorUntouched(m)
  /\ cur'[p] # cur[p] =>
       \/ pc[p] = "iter" /\ queue[p] # <<>> /\ cur'[p] = Head(queue[p])
                         /\ queue'[p] = Tail(queue[p])
       \/ pc'[p] = "iter" /\ cur'[p] = NoRepo /\ runs'[p] = runs[p] + 1
  /\ pc[p] = "failed" => (pc'[p] = "failed" \/ runs'[p] = runs[p] + 1)
  /\ (cur[p] \notin Later(p) /\ Cardinality(Later(p)) = Len(queue[p]))'
  /\ (pc[p] = "failed" => \A m \in Earlier(p) : PostSync(m))'

\* C14: update_repos returns the first error at once and never retries: no
\* repository later in the iteration order is cloned, fetched or written, the
\* failed repository's sync is attempted once, and every repository earlier in the
\* order keeps its completed post-sync state.
C14_FailFast == [][\A p \in active : FailFast(p)]_vars

\* C14's case: the sync of the second of three repositories has failed; the first
\* stands at its remote's merge commit and the third, mirrored earlier, still at
\* the child commit.
C14_Witness ==
  \E p \in active :
    /\ pc[p] = "failed"
    /\ \E e \in Earlier(p) : refs[e]["refs/heads/main"] = IdMerge /\ PostSync(e)
    /\ \E l \in Later(p) : exists[l] /\ refs[l]["refs/heads/main"] = IdChild
    /\ exists[cur[p]]
    /\ refs[cur[p]]["refs/heads/main"] = IdMerge
    /\ refsInfo[cur[p]] # [exists |-> TRUE, lines |-> RefsInfoOutput(refs[cur[p]])]

====
